---- MODULE Spec2Model ----
(***************************************************************************)
(* cargo-set-rust-version: src/main.rs.                                    *)
(*                                                                         *)
(* Text is a sequence of one-character strings, so that the length of a   *)
(* file, of a version and of a write are what they are in the program.    *)
(* A manifest is parsed line by line in the subset of TOML the manifests  *)
(* of this model use: blank lines, # comments, [table] headers and        *)
(* `key = value` lines whose value is a basic string, an integer, an      *)
(* array of those or a one-entry inline table.                             *)
(***************************************************************************)
EXTENDS Integers, Sequences, FiniteSets, TLC

\* ------------------------------------------------------------------ text

NL == "\n"
QUOTE == "\""
DIGITS == {"0", "1", "2", "3", "4", "5", "6", "7", "8", "9"}

Min(S) == CHOOSE x \in S : \A y \in S : x <= y

\* str::find: the index of the first c in s, 0 when there is none
IndexOf(s, c) ==
    LET hits == {i \in 1..Len(s) : s[i] = c}
    IN IF hits = {} THEN 0 ELSE Min(hits)

StartsWith(s, p) == Len(s) >= Len(p) /\ SubSeq(s, 1, Len(p)) = p
EndsWith(s, p) == Len(s) >= Len(p) /\ SubSeq(s, Len(s) - Len(p) + 1, Len(s)) = p
Drop(s, n) == SubSeq(s, n + 1, Len(s))

\* str::split(c): the pieces between the separators; never empty ("" gives <<"">>)
RECURSIVE split(_, _)
split(s, c) ==
    LET i == IndexOf(s, c)
    IN IF i = 0 THEN <<s>>
       ELSE <<SubSeq(s, 1, i - 1)>> \o split(Drop(s, i), c)

\* Iterator::take(n)
take(pieces, n) == SubSeq(pieces, 1, IF Len(pieces) < n THEN Len(pieces) ELSE n)

\* [&str]::join(sep)
RECURSIVE join(_, _)
join(pieces, sep) ==
    IF pieces = <<>> THEN <<>>
    ELSE IF Len(pieces) = 1 THEN pieces[1]
    ELSE pieces[1] \o sep \o join(Tail(pieces), sep)

RECURSIVE Concat(_)
Concat(chunks) == IF chunks = <<>> THEN <<>> ELSE Head(chunks) \o Concat(Tail(chunks))

\* the lines of a text, each with its terminating newline (the last may have none)
RECURSIVE SplitLines(_)
SplitLines(text) ==
    LET i == IndexOf(text, NL)
    IN IF text = <<>> THEN <<>>
       ELSE IF i = 0 THEN <<text>>
       ELSE <<SubSeq(text, 1, i)>> \o SplitLines(Drop(text, i))

LineBody(raw) == IF EndsWith(raw, <<NL>>) THEN SubSeq(raw, 1, Len(raw) - 1) ELSE raw

\* ------------------------------------------------------------- TOML text

K_rust_version == <<"r", "u", "s", "t", "-", "v", "e", "r", "s", "i", "o", "n">>
K_package == <<"p", "a", "c", "k", "a", "g", "e">>
K_workspace == <<"w", "o", "r", "k", "s", "p", "a", "c", "e">>
K_members == <<"m", "e", "m", "b", "e", "r", "s">>
EQ == <<" ", "=", " ">>
NoneText == <<"N", "o", "n", "e">>

BareKeyChars ==
    DIGITS \cup {"a", "b", "c", "d", "e", "g", "i", "k", "m", "n", "o", "p", "r", "s",
                 "t", "u", "v", "w", "x", "-", "_"}

IsBareKey(k) == k # <<>> /\ \A i \in 1..Len(k) : k[i] \in BareKeyChars

Bad == [t |-> "bad"]

\* a basic string "...": no quote and no escape inside
IsStringText(v) ==
    /\ Len(v) >= 2 /\ v[1] = QUOTE /\ v[Len(v)] = QUOTE
    /\ \A i \in 2..(Len(v) - 1) : v[i] \notin {QUOTE, "\\"}

IsIntegerText(v) == v # <<>> /\ \A i \in 1..Len(v) : v[i] \in DIGITS

ParseScalar(v) ==
    IF IsStringText(v) THEN [t |-> "str", s |-> SubSeq(v, 2, Len(v) - 1)]
    ELSE IF IsIntegerText(v) THEN [t |-> "int"]
    ELSE Bad

\* the items of an array body `x, y, z`
RECURSIVE ParseItems(_)
ParseItems(body) ==
    LET i == IndexOf(body, ",")
        first == IF i = 0 THEN body ELSE SubSeq(body, 1, i - 1)
        rest == IF i = 0 THEN <<>> ELSE Drop(body, i)
    IN IF body = <<>> THEN <<>>
       ELSE <<ParseScalar(first)>> \o
            (IF i = 0 THEN <<>>
             ELSE IF StartsWith(rest, <<" ">>) THEN ParseItems(Drop(rest, 1))
             ELSE <<Bad>>)

ParseValue(v) ==
    IF Len(v) >= 2 /\ v[1] = "[" /\ v[Len(v)] = "]"
    THEN LET items == ParseItems(SubSeq(v, 2, Len(v) - 1))
         IN IF \E i \in 1..Len(items) : items[i] = Bad THEN Bad
            ELSE [t |-> "arr", items |-> items]
    ELSE IF Len(v) >= 4 /\ SubSeq(v, 1, 2) = <<"{", " ">>
                        /\ SubSeq(v, Len(v) - 1, Len(v)) = <<" ", "}">>
    THEN LET inner == SubSeq(v, 3, Len(v) - 2)
             e == IndexOf(inner, " ")
             key == SubSeq(inner, 1, e - 1)
             val == ParseScalar(Drop(inner, e + 2))
         IN IF e = 0 \/ ~IsBareKey(key) \/ ~StartsWith(Drop(inner, e - 1), EQ) \/ val = Bad
            THEN Bad
            ELSE [t |-> "itab", key |-> key, val |-> val]
    ELSE ParseScalar(v)

ParseLine(body) ==
    IF \A i \in 1..Len(body) : body[i] = " " THEN [t |-> "blank"]
    ELSE IF body[1] = "#" THEN [t |-> "comment"]
    ELSE IF body[1] = "["
    THEN IF body[Len(body)] = "]" /\ IsBareKey(SubSeq(body, 2, Len(body) - 1))
         THEN [t |-> "table", name |-> SubSeq(body, 2, Len(body) - 1)]
         ELSE Bad
    ELSE LET e == IndexOf(body, " ")
             key == SubSeq(body, 1, e - 1)
             val == ParseValue(Drop(body, e + 2))
         IN IF e = 0 \/ ~IsBareKey(key) \/ ~StartsWith(Drop(body, e - 1), EQ) \/ val = Bad
            THEN Bad
            ELSE [t |-> "kv", key |-> key, val |-> val]

\* str::parse::<toml_edit::Document>: the lines with what each one is
ParseDocument(text) ==
    LET raws == SplitLines(text)
    IN [i \in 1..Len(raws) |-> [raw |-> raws[i], p |-> ParseLine(LineBody(raws[i]))]]

\* the table a line belongs to: the name of the last header above it, <<>> at the root
TableOf(doc, i) ==
    LET heads == {j \in 1..(i - 1) : doc[j].p.t = "table"}
    IN IF heads = {} THEN <<>> ELSE doc[CHOOSE j \in heads : \A k \in heads : k <= j].p.name

Headers(doc, name) == {i \in 1..Len(doc) : doc[i].p.t = "table" /\ doc[i].p.name = name}
KeyLines(doc, table, key) ==
    {i \in 1..Len(doc) : doc[i].p.t = "kv" /\ doc[i].p.key = key /\ TableOf(doc, i) = table}

\* Err(ParsingManifest): a line that is no TOML, or a table or key defined twice
ParseFails(doc) ==
    \/ \E i \in 1..Len(doc) : doc[i].p = Bad
    \/ \E i, j \in 1..Len(doc) :
          /\ i < j
          /\ \/ doc[i].p.t = "table" /\ doc[j].p.t = "table" /\ doc[i].p.name = doc[j].p.name
             \/ /\ doc[i].p.t = "kv" /\ doc[j].p.t = "kv" /\ doc[i].p.key = doc[j].p.key
                /\ TableOf(doc, i) = TableOf(doc, j)
             \/ /\ doc[i].p.t = "kv" /\ TableOf(doc, i) = <<>>
                /\ doc[j].p.t = "table" /\ doc[j].p.name = doc[i].p.key

\* -------------------------------------------------- toml_edit::Document

\* Document::get("workspace"): a [workspace] table or a root key of that name
HasItem(doc, name) == Headers(doc, name) # {} \/ KeyLines(doc, <<>>, name) # {}

\* Item::get(key) below the root item `table`: the value, or [t |-> "none"]
GetIn(doc, table, key) ==
    LET inTable == KeyLines(doc, table, key)
        inline == KeyLines(doc, <<>>, table)
    IN IF inTable # {} THEN doc[CHOOSE i \in inTable : TRUE].p.val
       ELSE IF inline # {}
       THEN LET v == doc[CHOOSE i \in inline : TRUE].p.val
            IN IF v.t = "itab" /\ v.key = key THEN v.val ELSE [t |-> "none"]
       ELSE [t |-> "none"]

\* manifest.get("package").and_then(get("rust-version")).and_then(Item::as_str)
current_version(doc) ==
    LET v == GetIn(doc, K_package, K_rust_version)
    IN IF v.t = "str" THEN [some |-> TRUE, s |-> v.s] ELSE [some |-> FALSE, s |-> <<>>]

\* toml_edit::value(latest_version) as it is written: a basic string
ValueText(latest_version) == <<QUOTE>> \o latest_version \o <<QUOTE>>

KeyValueLine(key, valueText) == key \o EQ \o valueText \o <<NL>>

WithNewline(raw) == IF EndsWith(raw, <<NL>>) THEN raw ELSE raw \o <<NL>>

\* the raw lines of doc with `line` inserted after line n
InsertAfter(doc, n, line) ==
    [i \in 1..(Len(doc) + 1) |->
        IF i < n THEN doc[i].raw
        ELSE IF i = n THEN WithNewline(doc[i].raw)
        ELSE IF i = n + 1 THEN line
        ELSE doc[i - 1].raw]

\* manifest["package"]["rust-version"] = toml_edit::value(latest_version), then
\* manifest.to_string(): every line as it was read, but for the one assigned
to_string_with(doc, latest_version) ==
    LET new == ValueText(latest_version)
        inTable == KeyLines(doc, K_package, K_rust_version)
        inline == KeyLines(doc, <<>>, K_package)
        heads == Headers(doc, K_package)
    IN IF inTable # {}
       THEN \* the key exists: its value is replaced, the key and its line stay
            LET n == CHOOSE i \in inTable : TRUE
            IN Concat([i \in 1..Len(doc) |->
                   IF i # n THEN doc[i].raw
                   ELSE K_rust_version \o EQ \o new
                        \o (IF EndsWith(doc[i].raw, <<NL>>) THEN <<NL>> ELSE <<>>)])
       ELSE IF heads # {}
       THEN \* the table exists without the key: the key is added after its last key
            LET h == CHOOSE i \in heads : TRUE
                keys == {i \in 1..Len(doc) : doc[i].p.t = "kv" /\ TableOf(doc, i) = K_package}
                n == IF keys = {} THEN h ELSE CHOOSE i \in keys : \A k \in keys : k <= i
            IN Concat(InsertAfter(doc, n, KeyValueLine(K_rust_version, new)))
       ELSE IF inline # {}
       THEN \* package is an inline table: the value in it is replaced
            LET n == CHOOSE i \in inline : TRUE
            IN Concat([i \in 1..Len(doc) |->
                   IF i # n THEN doc[i].raw
                   ELSE K_package \o EQ \o <<"{", " ">> \o K_rust_version \o EQ \o new
                        \o <<" ", "}">>
                        \o (IF EndsWith(doc[i].raw, <<NL>>) THEN <<NL>> ELSE <<>>)])
       ELSE \* no package item: indexing creates it as an inline table, a root key,
            \* which is written after the root's last key and before every table
            LET line == KeyValueLine(K_package,
                            <<"{", " ">> \o K_rust_version \o EQ \o new \o <<" ", "}">>)
                keys == {i \in 1..Len(doc) : doc[i].p.t = "kv" /\ TableOf(doc, i) = <<>>}
                n == IF keys = {} THEN 0 ELSE CHOOSE i \in keys : \A k \in keys : k <= i
            IN IF n = 0 THEN line \o Concat([i \in 1..Len(doc) |-> doc[i].raw])
               ELSE Concat(InsertAfter(doc, n, line))

\* OpenOptions::new().write(true).open(path) then write_all(bytes): the bytes go
\* over the start of the file; no truncate(true), so what the file held beyond
\* them stays
write_all(old, bytes) ==
    IF Len(bytes) >= Len(old) THEN bytes ELSE bytes \o Drop(old, Len(bytes))

\* ------------------------------------------------------ Release Resolver

\* lines 108-113: the text before the first space, cut to its first two dot
\* components; next() on a split is never None, so no error comes from here
major_minor_version(version_and_meta) ==
    LET pieces == split(version_and_meta, " ")
    IN IF pieces = <<>> THEN [err |-> "ReleaseInfoRustCVersionIsEmpty", v |-> <<>>]
       ELSE [err |-> "", v |-> join(take(split(pieces[1], "."), 2), <<".">>)]

\* ------------------------------------------------------------ the inputs

MaxDepth == 4
MaxRuns == 2

V_1_60 == <<"1", ".", "6", "0">>
V_1_62 == <<"1", ".", "6", "2">>
V_1_62_0 == <<"1", ".", "6", "2", ".", "0">>

T_package == <<"[", "p", "a", "c", "k", "a", "g", "e", "]", "\n">>
T_workspace == <<"[", "w", "o", "r", "k", "s", "p", "a", "c", "e", "]", "\n">>
T_comment ==
    <<"#", " ", "K", "e", "e", "p", " ", "r", "u", "s", "t", "-", "v", "e", "r", "s", "i",
      "o", "n", " ", "u", "p", " ", "t", "o", " ", "d", "a", "t", "e", ".", "\n">>
T_end == <<"#", " ", "e", "n", "d", "\n">>
T_name == <<"n", "a", "m", "e", " ", "=", " ", "\"", "x", "\"", "\n">>
T_unclosed == <<"[", "p", "a", "c", "k", "a", "g", "e", "\n">>

\* the manifests of tests/*.rs and their like
PackageTexts ==
    { <<>>,
      <<NL>> \o T_package \o KeyValueLine(K_rust_version, ValueText(V_1_62)),
      <<NL>> \o T_package \o KeyValueLine(K_rust_version, ValueText(V_1_60)),
      <<NL>> \o T_package \o T_comment \o KeyValueLine(K_rust_version, ValueText(V_1_62_0)),
      T_package \o KeyValueLine(K_rust_version, ValueText(V_1_60)) \o T_end,
      T_package \o KeyValueLine(K_rust_version, <<"1">>),
      T_package \o T_name }

A == <<"a">>
B == <<"b">>
DOT == <<".">>
MembersLine(arrayText) == KeyValueLine(K_members, arrayText)
Arr2(x, y) == <<"[">> \o x \o <<",", " ">> \o y \o <<"]">>
Arr1(x) == <<"[">> \o x \o <<"]">>

WorkspaceTexts ==
    { <<NL>> \o T_workspace \o MembersLine(Arr2(ValueText(A), ValueText(B))),
      T_workspace \o MembersLine(Arr2(ValueText(B), ValueText(A))),
      T_workspace \o MembersLine(Arr2(ValueText(A), ValueText(A))),
      T_workspace \o MembersLine(Arr2(ValueText(A), <<"1">>)),
      T_workspace \o MembersLine(Arr1(ValueText(<<>>))),
      T_workspace \o MembersLine(Arr1(ValueText(DOT))),
      T_workspace \o MembersLine(ValueText(A)),
      T_workspace }

\* no manifest in the directory: a value no text equals
NoFile == <<"NoFile">>
Dirs == {<<>>, <<A>>, <<B>>}

RootFiles == WorkspaceTexts \cup PackageTexts \cup {NoFile}
AFiles == PackageTexts \cup {NoFile, T_unclosed}
BFiles == PackageTexts \cup {T_workspace \o MembersLine(Arr1(ValueText(A)))}

\* what the channel's release descriptor holds (lines 94-107)
Descriptors ==
    { [k |-> "Http", s |-> <<>>],
      [k |-> "ParsingReleaseInfoNotString", s |-> <<>>],
      [k |-> "ParsingReleaseInfoNotValidToml", s |-> <<>>],
      [k |-> "ReleaseInfoPkgSectionIsMissing", s |-> <<>>],
      [k |-> "ReleaseInfoRustcSectionIsMissing", s |-> <<>>],
      [k |-> "ReleaseInfoRustCVersionIsMissing", s |-> <<>>],
      [k |-> "ReleaseInfoRustCVersionIsNotString", s |-> <<>>],
      [k |-> "version", s |-> <<"1", ".", "6", "2", ".", "0", " ", "(", "a", "8", "3", "1", "4",
                                "e", "f", "7", "d", " ", "2", "0", "2", "2", "-", "0", "6",
                                "-", "2", "7", ")">>],
      [k |-> "version", s |-> V_1_62],
      [k |-> "version", s |-> <<"2">>],
      [k |-> "version", s |-> <<>>],
      [k |-> "version", s |-> <<" ", "1", ".", "6", "2", ".", "0">>] }

\* -------------------------------------------------------------- the state

VARIABLES
    fs,             \* the manifest of each directory: its text, or NoFile
    readonly,       \* the directories whose manifest cannot be opened for writing
    info,           \* the release descriptor the channel's URL answers with
    pc,             \* where main is: "start", "walk", "returned", "exited", "aborted"
    stack,          \* the calls of run_for_manifest in progress, the innermost last
    latest_version, \* the target version run computed
    result,         \* what run returned: "none" yet, "Ok", or the Error's name
    events,         \* what this run printed and which files it read and wrote, in order
    stderr,         \* the diagnostics main printed
    exit_code,      \* the status the process ended with, -1 while it runs
    runs,           \* how many times the tool was started
    prev            \* the files and the result the previous run ended with

vars == <<fs, readonly, info, pc, stack, latest_version, result, events, stderr,
          exit_code, runs, prev>>

Init ==
    /\ \E r \in RootFiles, a \in AFiles, b \in BFiles :
          fs = [d \in Dirs |-> IF d = <<>> THEN r ELSE IF d = <<A>> THEN a ELSE b]
    /\ readonly \in {{}, {<<A>>}, {<<>>}}
    /\ info \in Descriptors
    /\ pc = "start"
    /\ stack = <<>>
    /\ latest_version = <<>>
    /\ result = "none"
    /\ events = <<>>
    /\ stderr = <<>>
    /\ exit_code = -1
    /\ runs = 1
    /\ prev = [fs |-> fs, result |-> "none"]

\* ------------------------------------------------------------ the events

Out(path, ev, old, new) == [k |-> "out", path |-> path, ev |-> ev, old |-> old, new |-> new]
Io(path, op) == [k |-> op, path |-> path, ev |-> op, old |-> <<>>, new |-> <<>>]

\* ------------------------------------------------------------- the paths

NotDot(c) == c # DOT
\* the directory a path names: `.` components name the directory they are in
Resolve(dir) == SelectSeq(dir, NotDot)
FileAt(dir) == IF Resolve(dir) \in Dirs THEN fs[Resolve(dir)] ELSE NoFile

\* workspace_path.join(m).join("Cargo.toml"): the member's directory; joining
\* the empty string adds no component
m_path(workspace_path, m) == IF m = <<>> THEN workspace_path ELSE Append(workspace_path, m)

\* ------------------------------------------------------------ the actions

Top == stack[Len(stack)]
Frame(path, at, raw, i) == [path |-> path, at |-> at, raw |-> raw, i |-> i]
SetTop(f) == [stack EXCEPT ![Len(stack)] = f]

\* Fail with the error kept but the caller's loop going on to its next member
Fail_LoopGoesOn(e) ==
    /\ result' = e
    /\ stack' = SubSeq(stack, 1, Len(stack) - 1)
    /\ pc' = IF Len(stack) <= 1 THEN "returned" ELSE pc

\* `?` and `return Err`: every caller returns the same error at once
Fail(e) ==
    /\ result' = e
    /\ stack' = <<>>
    /\ pc' = "returned"

\* return Ok(()): back in the caller's loop, or in run when this was the root
ReturnOk ==
    /\ stack' = SubSeq(stack, 1, Len(stack) - 1)
    /\ IF Len(stack) = 1
       THEN result' = "Ok" /\ pc' = "returned"
       ELSE UNCHANGED <<result, pc>>

\* run, lines 86-117
Run ==
    /\ pc = "start"
    /\ UNCHANGED <<fs, readonly, info, stderr, exit_code, runs, prev>>
    /\ LET v == major_minor_version(info.s)
           channel == Out(<<>>, "channel", <<>>, <<>>)
       IN IF info.k # "version"
          THEN /\ events' = Append(events, channel)
               /\ Fail(info.k)
               /\ UNCHANGED latest_version
          ELSE IF v.err # ""
          THEN /\ events' = Append(events, channel)
               /\ Fail(v.err)
               /\ UNCHANGED latest_version
          ELSE /\ events' = events \o <<channel, Out(<<>>, "latest", <<>>, v.v)>>
               /\ latest_version' = v.v
               /\ stack' = <<Frame(<<>>, "read", <<>>, 0)>>
               /\ pc' = "walk"
               /\ UNCHANGED result

\* run_for_manifest, lines 125-133
Read ==
    /\ pc = "walk" /\ Top.at = "read"
    /\ UNCHANGED <<fs, readonly, info, latest_version, stderr, exit_code, runs, prev>>
    /\ LET reading == Out(Top.path, "reading", <<>>, <<>>)
           raw == FileAt(Top.path)
       IN IF raw = NoFile
          THEN events' = Append(events, reading) /\ Fail("ReadingManifest")
          ELSE /\ events' = events \o <<reading, Io(Top.path, "read")>>
               /\ IF ParseFails(ParseDocument(raw))
                  THEN Fail("ParsingManifest")
                  ELSE /\ stack' = SetTop(Frame(Top.path,
                                       IF HasItem(ParseDocument(raw), K_workspace)
                                       THEN "workspace" ELSE "package", raw, 0))
                       /\ UNCHANGED <<result, pc>>

\* lines 134-143
Workspace ==
    /\ pc = "walk" /\ Top.at = "workspace"
    /\ UNCHANGED <<fs, readonly, info, latest_version, stderr, exit_code, runs, prev>>
    /\ events' = Append(events, Out(Top.path, "found workspace", <<>>, <<>>))
    /\ LET members == GetIn(ParseDocument(Top.raw), K_workspace, K_members)
       IN IF members.t = "none" THEN Fail("WorkspaceMembersIsMissing")
          ELSE IF members.t # "arr" THEN Fail("WorkspaceMembersIsNotArray")
          ELSE /\ stack' = SetTop(Frame(Top.path, "members", Top.raw, 1))
               /\ UNCHANGED <<result, pc>>

\* Member with the loop of line 144 walking the array from its end
Member_LastFirst ==
    /\ pc = "walk" /\ Top.at = "members"
    /\ UNCHANGED <<fs, readonly, info, latest_version, stderr, exit_code, runs, prev, events>>
    /\ LET members == GetIn(ParseDocument(Top.raw), K_workspace, K_members).items
           m == members[Len(members) + 1 - Top.i]
       IN IF Top.i > Len(members) THEN ReturnOk
          ELSE IF m.t # "str" THEN Fail("WorkspaceMemberIsNotString")
          ELSE IF Len(stack) >= MaxDepth
          THEN /\ result' = "StackOverflow"
               /\ pc' = "aborted"
               /\ UNCHANGED stack
          ELSE /\ stack' = Append(SetTop(Frame(Top.path, "members", Top.raw, Top.i + 1)),
                                  Frame(m_path(Top.path, m.s), "read", <<>>, 0))
               /\ UNCHANGED <<result, pc>>

\* lines 144-150: one turn of the loop, or the return after it
Member ==
    /\ pc = "walk" /\ Top.at = "members"
    /\ UNCHANGED <<fs, readonly, info, latest_version, stderr, exit_code, runs, prev, events>>
    /\ LET members == GetIn(ParseDocument(Top.raw), K_workspace, K_members).items
       IN IF Top.i > Len(members) THEN ReturnOk
          ELSE IF members[Top.i].t # "str" THEN Fail("WorkspaceMemberIsNotString")
          ELSE IF Len(stack) >= MaxDepth
          THEN \* the call stack is exhausted: the process is killed
               /\ result' = "StackOverflow"
               /\ pc' = "aborted"
               /\ UNCHANGED stack
          ELSE /\ stack' = Append(SetTop(Frame(Top.path, "members", Top.raw, Top.i + 1)),
                                  Frame(m_path(Top.path, members[Top.i].s), "read", <<>>, 0))
               /\ UNCHANGED <<result, pc>>

\* Package with the comparison of line 161 lost: every package is rewritten
Package_AlwaysUpdates ==
    /\ pc = "walk" /\ Top.at = "package"
    /\ UNCHANGED <<fs, readonly, info, latest_version, stderr, exit_code, runs, prev>>
    /\ LET cur == current_version(ParseDocument(Top.raw))
       IN /\ events' = Append(events,
                 Out(Top.path, "updating", IF cur.some THEN cur.s ELSE NoneText,
                     latest_version))
          /\ stack' = SetTop(Frame(Top.path, "write", Top.raw, 0))
          /\ UNCHANGED <<result, pc>>

\* lines 153-176
Package ==
    /\ pc = "walk" /\ Top.at = "package"
    /\ UNCHANGED <<fs, readonly, info, latest_version, stderr, exit_code, runs, prev>>
    /\ LET cur == current_version(ParseDocument(Top.raw))
       IN IF cur.some /\ cur.s = latest_version
          THEN /\ events' = Append(events, Out(Top.path, "up-to-date", <<>>, cur.s))
               /\ ReturnOk
          ELSE /\ events' = Append(events,
                      Out(Top.path, "updating", IF cur.some THEN cur.s ELSE NoneText,
                          latest_version))
               /\ stack' = SetTop(Frame(Top.path, "write", Top.raw, 0))
               /\ UNCHANGED <<result, pc>>

\* lines 177-185
Write ==
    /\ pc = "walk" /\ Top.at = "write"
    /\ UNCHANGED <<readonly, info, latest_version, stderr, exit_code, runs, prev>>
    /\ IF Resolve(Top.path) \in readonly
       THEN Fail("WritingManifest") /\ UNCHANGED <<fs, events>>
       ELSE /\ fs' = [fs EXCEPT ![Resolve(Top.path)] =
                        write_all(@, to_string_with(ParseDocument(Top.raw), latest_version))]
            /\ events' = Append(events, Io(Top.path, "write"))
            /\ ReturnOk

\* main, lines 189-195: the error is printed; main returns () either way
Exit ==
    /\ pc = "returned"
    /\ pc' = "exited"
    /\ stderr' = IF result # "Ok" THEN Append(stderr, result) ELSE stderr
    /\ exit_code' = 0
    /\ prev' = [fs |-> fs, result |-> result]
    /\ UNCHANGED <<fs, readonly, info, stack, latest_version, result, events, runs>>

\* the tool is started again on the same manifest, the channel answering the same
Rerun ==
    /\ pc = "exited" /\ runs < MaxRuns
    /\ pc' = "start"
    /\ runs' = runs + 1
    /\ result' = "none"
    /\ events' = <<>>
    /\ stderr' = <<>>
    /\ exit_code' = -1
    /\ latest_version' = <<>>
    /\ UNCHANGED <<fs, readonly, info, stack, prev>>

Next == Run \/ Read \/ Workspace \/ Member \/ Package \/ Write \/ Exit \/ Rerun

Spec == Init /\ [][Next]_vars

\* ------------------------------------------------------------- the claims

IsError(r) == r \notin {"none", "Ok", "StackOverflow"}
Started == pc \in {"walk", "returned", "aborted"}

\* the manifest a directory held when this run started
AtStart(d) == prev.fs[d]
StartDoc(d) == ParseDocument(AtStart(d))
IsPackageManifest(text) ==
    /\ text # NoFile
    /\ ~ParseFails(ParseDocument(text))
    /\ ~HasItem(ParseDocument(text), K_workspace)
EventsOf(d, ev) == {i \in 1..Len(events) : events[i].ev = ev /\ Resolve(events[i].path) = d}

\* C2: a package manifest whose package.rust-version is a string equal to the
\* target is not written by the run, and its bytes stay what they were.
C2_NoWriteOnMatch ==
    \A d \in Dirs :
        (/\ Started
         /\ IsPackageManifest(AtStart(d))
         /\ current_version(StartDoc(d)) = [some |-> TRUE, s |-> latest_version])
        => /\ fs[d] = AtStart(d)
           /\ EventsOf(d, "write") = {}
           /\ EventsOf(d, "updating") = {}

C2_Witness ==
    /\ pc = "returned" /\ result = "Ok"
    /\ IsPackageManifest(AtStart(<<>>))
    /\ current_version(StartDoc(<<>>)) = [some |-> TRUE, s |-> latest_version]
    /\ EventsOf(<<>>, "up-to-date") # {}

\* C3: run on an empty document with target "1.62": no write is attempted, the
\* file stays empty, and the only line reported for it is the "reading" line.
C3_EmptyManifestUntouched ==
    (/\ pc = "returned"
     /\ AtStart(<<>>) = <<>>
     /\ latest_version = V_1_62)
    => /\ fs[<<>>] = <<>>
       /\ EventsOf(<<>>, "write") = {}
       /\ EventsOf(<<>>, "updating") = {}
       /\ EventsOf(<<>>, "reading") # {}

\* the text with the value of its rust-version line replaced, nothing else touched
Replaced(text, old, new) ==
    LET line == K_rust_version \o EQ \o ValueText(old)
        at == {i \in 1..Len(text) : StartsWith(Drop(text, i - 1), line)}
    IN {SubSeq(text, 1, i - 1) \o K_rust_version \o EQ \o ValueText(new)
            \o Drop(text, i - 1 + Len(line)) : i \in at}

\* C4: when the run updates a package manifest, the file afterwards is the input
\* text with only the package.rust-version value replaced by the target: every
\* other byte is as it was and nothing of the old content is left beyond the new
\* text, also when the new text is shorter than the old.
C4_OnlyTheValueReplaced ==
    \A d \in Dirs :
        (/\ pc = "returned"
         /\ Cardinality(EventsOf(d, "write")) = 1
         /\ current_version(StartDoc(d)).some)
        => fs[d] \in Replaced(AtStart(d), current_version(StartDoc(d)).s, latest_version)

\* C6: when run returns an error the process prints a diagnostic and ends with a
\* non-zero exit code; exit code 0 is for success only.
C6_NonZeroExitOnError ==
    pc = "exited" =>
        /\ IsError(result) => (stderr # <<>> /\ exit_code # 0)
        /\ exit_code = 0 => result = "Ok"

\* C9: a release version whose text before the first space is empty (the empty
\* string, or one starting with a space) makes run fail with
\* ReleaseInfoRustCVersionIsEmpty; run_for_manifest is never called with an
\* empty target.
C9_EmptyVersionRejected ==
    /\ (/\ pc # "start"
        /\ info.k = "version"
        /\ (info.s = <<>> \/ StartsWith(info.s, <<" ">>)))
       => (result = "ReleaseInfoRustCVersionIsEmpty" /\ stack = <<>>)
    /\ pc = "walk" => latest_version # <<>>

\* the members a workspace manifest lists, <<>> when it lists none
MembersOf(text) ==
    LET m == GetIn(ParseDocument(text), K_workspace, K_members)
    IN IF m.t = "arr" THEN m.items ELSE <<>>

IsWorkspaceOfPackages(text) ==
    /\ text # NoFile
    /\ ~ParseFails(ParseDocument(text))
    /\ HasItem(ParseDocument(text), K_workspace)
    /\ MembersOf(text) # <<>>
    /\ \A i \in 1..Len(MembersOf(text)) :
          /\ MembersOf(text)[i].t = "str"
          /\ Resolve(m_path(<<>>, MembersOf(text)[i].s)) \in Dirs \ {<<>>}
          /\ IsPackageManifest(AtStart(Resolve(m_path(<<>>, MembersOf(text)[i].s))))

\* C1: after a successful run on a workspace whose members are package
\* manifests, every member was visited, every member whose rust-version differed
\* from the target now has the target as its rust-version, and every member that
\* had the target already is unchanged.
C1_WorkspaceFanOut ==
    (/\ pc = "returned" /\ result = "Ok"
     /\ IsWorkspaceOfPackages(AtStart(<<>>)))
    => \A i \in 1..Len(MembersOf(AtStart(<<>>))) :
          LET d == Resolve(m_path(<<>>, MembersOf(AtStart(<<>>))[i].s))
          IN /\ EventsOf(d, "reading") # {}
             /\ ~ParseFails(ParseDocument(fs[d]))
             /\ current_version(ParseDocument(fs[d])) = [some |-> TRUE, s |-> latest_version]
             /\ current_version(StartDoc(d)) = [some |-> TRUE, s |-> latest_version]
                    => fs[d] = AtStart(d)

\* what a depth-first walk from a manifest reports, in order: its "reading", its
\* "found workspace", then the same of each member in the order listed
RECURSIVE Preorder(_, _)
Preorder(path, depth) ==
    LET raw == IF Resolve(path) \in Dirs THEN AtStart(Resolve(path)) ELSE NoFile
        doc == ParseDocument(raw)
        items == MembersOf(raw)
    IN IF depth > MaxDepth THEN <<>>
       ELSE IF raw = NoFile \/ ParseFails(doc) \/ ~HasItem(doc, K_workspace)
       THEN <<<<path, "reading">>>>
       ELSE <<<<path, "reading">>, <<path, "found workspace">>>> \o
            Concat([i \in 1..Len(items) |->
                       IF items[i].t = "str"
                       THEN Preorder(m_path(path, items[i].s), depth + 1)
                       ELSE <<>>])

IsVisitLine(e) == e.ev \in {"reading", "found workspace"}
VisitLines ==
    LET sel == SelectSeq(events, IsVisitLine)
    IN [i \in 1..Len(sel) |-> <<sel[i].path, sel[i].ev>>]

IsPrefix(s, t) == Len(s) <= Len(t) /\ s = SubSeq(t, 1, Len(s))

C7_SecondRunIsIdle ==
    (/\ runs = 2 /\ pc = "returned"
     /\ prev.result = "Ok"
     /\ prev.fs[<<>>] # NoFile
     /\ ~HasItem(ParseDocument(prev.fs[<<>>]), K_workspace))
    => /\ result = "Ok"
       /\ EventsOf(<<>>, "up-to-date") # {}
       /\ EventsOf(<<>>, "write") = {}
       /\ fs = prev.fs

\* C8: once a step of the walk fails, nothing is read, written or reported
\* afterwards in that run, the error is what run returns and main prints, and
\* the files rewritten before the failure keep their new content.
C8_AbortOnFirstError ==
    [][/\ (IsError(result) /\ runs' = runs) =>
              /\ fs' = fs /\ events' = events /\ result' = result /\ stack' = <<>>
              /\ pc' = "exited" /\ stderr' = <<result>>
       /\ (~IsError(result) /\ IsError(result')) =>
              /\ fs' = fs /\ stack' = <<>> /\ pc' = "returned"
              /\ \A i \in 1..Len(events') : events'[i].k # "write" \/ i <= Len(events)
      ]_vars

C8_Witness ==
    /\ pc = "exited" /\ IsError(result) /\ stderr = <<result>>
    /\ \E i, j \in 1..Len(events) :
          /\ i < j
          /\ events[i].ev = "write" /\ events[j].ev = "reading"
    /\ \E d \in Dirs : fs[d] # NoFile /\ IsPackageManifest(fs[d])
                       /\ current_version(ParseDocument(fs[d])).s = latest_version
                       /\ EventsOf(d, "write") # {}

\* C10: the walk ends with run_for_manifest returning Ok or an error, also when
\* a members list leads back to a manifest already being walked: the calls never
\* nest until the process dies of it.
C10_WalkTerminates == pc # "aborted" /\ result # "StackOverflow"

====
